---- MODULE Spec2Model ----
(***************************************************************************)
(* Model of columns_to_iter_recursive                                      *)
(* (crates/polars-parquet/src/arrow/read/deserialize/nested.rs).           *)
(*                                                                         *)
(* The recursion is unfolded into an explicit call stack: every frame of   *)
(* `stack` is one activation of columns_to_iter_recursive with its own     *)
(* (moved) `columns`, `types` and `init` vectors.  `ret` is the value the  *)
(* most recently finished activation handed to its caller; when the stack  *)
(* is empty it is the result of the top-level call.                        *)
(***************************************************************************)
EXTENDS Integers, Sequences, FiniteSets, TLC

VARIABLES
    field0,     \* the Field the top-level call is entered with
    columns0,   \* the leaf-stream stack of the top-level call (stream ids)
    types0,     \* the leaf physical-type stack of the top-level call
    init0,      \* the nesting markers the top-level call is entered with
    debug,      \* TRUE iff the build has debug_assertions
    stack,      \* call stack of activations, innermost last
    ret,        \* what the last finished activation returned
    decoded,    \* history: every PageNestedDecoder::new(..).collect_n(..) call
    comma,      \* one call of comma_delimited (polars-plan/src/utils.rs)
    PYTHON_CONVERT_REGISTRY,    \* the static RwLock<Option<PythonConvertRegistry>>
    threads     \* the threads calling into python_convert_registry.rs

vars == <<field0, columns0, types0, init0, debug, stack, ret, decoded,
          comma, PYTHON_CONVERT_REGISTRY, threads>>

\* The state of the other two programs of the model.
others == <<comma, PYTHON_CONVERT_REGISTRY, threads>>

----------------------------------------------------------------------------
(* Bounds of the model *)

MaxCols == 3    \* longest leaf stack the top-level call is entered with
MaxLen == 1     \* longest array length a decoded level reports

(* Program constants *)

Decimal128MaxBytes == 16
Decimal256MaxBytes == 32

----------------------------------------------------------------------------
(* Schema: ArrowDataType and Field *)

DT(kind, fields, width, key, value) ==
    [kind |-> kind, fields |-> fields, width |-> width, key |-> key, value |-> value]

Fld(dtype, nullable, metadata) ==
    [dtype |-> dtype, is_nullable |-> nullable, metadata |-> metadata]

LeafDT(kind) == DT(kind, <<>>, 0, "", "")
DictDT(key, value) == DT("Dictionary", <<>>, 0, key, value)
ListDT(kind, inner) == DT(kind, <<inner>>, 0, "", "")
FixedSizeListDT(inner, width) == DT("FixedSizeList", <<inner>>, width, "", "")
StructDT(fields) == DT("Struct", fields, 0, "", "")

\* Arms `Null` .. `BinaryView | Utf8View` that pop one type and one stream and
\* decode with a decoder fixed by the logical type alone.
DirectKinds ==
    {"Null", "Boolean", "Int8", "Int16", "Int32", "Int64", "UInt8", "UInt16",
     "UInt64", "Float32", "Float64", "BinaryView", "Utf8View"}

UnreachableKinds == {"LargeBinary", "LargeUtf8", "Binary", "Utf8"}

ListKinds == {"List", "LargeList"}

\* Logical types stored as another type's physical type: dispatched by the arm
\* of that physical type (Date32 as Int32, Timestamp as Int64).
TemporalKinds == {"Date32", "Timestamp"}

\* Logical types with no arm of their own: they reach the catch-all arm.
OtherKinds == {"Float16", "FixedSizeBinary"}

\* field.metadata: absent, present without a marker, or present with
\* DTYPE_CATEGORICAL / DTYPE_ENUM_VALUES.
Metadata == {"absent", "unmarked", "categorical", "enum"}

\* Mutant: only the categorical marker is looked up.
HasCategoricalMarker_noenum(md) == md = "categorical"

HasCategoricalMarker(md) == md \in {"categorical", "enum"}

----------------------------------------------------------------------------
(* Parquet physical types of a leaf column *)

Phys(pt, n) == [pt |-> pt, n |-> n]

FixedLenWidths ==
    {1, 2, Decimal128MaxBytes, Decimal128MaxBytes + 1,
     Decimal256MaxBytes, Decimal256MaxBytes + 1}

PhysicalTypes ==
    {Phys(p, 0) : p \in {"Boolean", "Int32", "Int64", "Int96", "Float", "Double", "ByteArray"}}
    \cup {Phys("FixedLenByteArray", n) : n \in FixedLenWidths}

----------------------------------------------------------------------------
(* Nesting markers (InitNested), NestedState entries, validity bitmaps *)

Marker(tag, nullable, width) == [tag |-> tag, nullable |-> nullable, width |-> width]

\* Option<MutableBitmap>: None, or a bitmap of `len` bits with the bits in
\* `unset` cleared.
None == [some |-> FALSE, len |-> 0, unset |-> {}]
SomeBitmap(len, unset) == [some |-> TRUE, len |-> len, unset |-> unset]

Validities(len) == {None} \cup {SomeBitmap(len, u) : u \in SUBSET (1..len)}

\* A bitmap with no unset bit collapses to None.
freeze_validity(v) == IF v.some /\ v.unset # {} THEN v ELSE None

\* validity.and_then(freeze_validity)
Collapse(v) == IF v.some THEN freeze_validity(v) ELSE None

\* One NestedState entry: the content tag of the level, its length, its validity.
Entry(tag, length, validity) == [tag |-> tag, length |-> length, validity |-> validity]

\* What a decoded level can report: a length and a validity over that length.
Shapes == UNION {{[length |-> n, validity |-> v] : v \in Validities(n)} : n \in 1..MaxLen}

----------------------------------------------------------------------------
(* Array values *)

\* What a leaf decoder hands back, as far as the dispatch reads it: the value
\* buffer (bytes, for the fixed-size-binary decoder) and the validity bitmap.
Buffer(values, validity) == [values |-> values, validity |-> validity]

NoBuffer == Buffer(<<>>, None)

\* `values` holds the values of a leaf array where the dispatch computes them
\* (a 128-bit or 256-bit integer is the sequence of its bytes, most significant
\* first); `raw` and `raw_nested` are history: the buffer and the NestedState
\* the fixed-size-binary decoder handed back.
NoArray ==
    [node |-> "none", dtype |-> LeafDT("none"), stream |-> 0, decoder |-> "",
     conv |-> "", children |-> <<>>, length |-> 0, validity |-> None,
     values |-> <<>>, raw |-> NoBuffer, raw_nested |-> <<>>]

LeafArray(dtype, stream, decoder, conv) ==
    [node |-> "leaf", dtype |-> dtype, stream |-> stream, decoder |-> decoder,
     conv |-> conv, children |-> <<>>, length |-> 0, validity |-> None,
     values |-> <<>>, raw |-> NoBuffer, raw_nested |-> <<>>]

ContainerArray(node, dtype, children, length, validity) ==
    [node |-> node, dtype |-> dtype, stream |-> 0, decoder |-> "",
     conv |-> "", children |-> children, length |-> length, validity |-> validity,
     values |-> <<>>, raw |-> NoBuffer, raw_nested |-> <<>>]

----------------------------------------------------------------------------
(* Activations and results *)

Frame(field, columns, types, init) ==
    [field |-> field, columns |-> columns, types |-> types, init |-> init,
     pc |-> "enter",            \* "enter": about to dispatch; "child": waiting for a callee
     idx |-> 0,                 \* Struct: index of the field being reconstructed
     nested |-> <<>>,           \* Struct: `nested` of the last declared field
     length |-> 0,              \* Struct: `length`
     struct_validity |-> None,  \* Struct: `struct_validity`
     field_arrays |-> <<>>,     \* Struct: `field_arrays`
     field_validity |-> <<>>,   \* Struct, history: the struct-level validity each
                                \* reconstructed field reported, in processing order
     field_nested |-> <<>>,     \* Struct, history: the NestedState each reconstructed
                                \* field returned, in processing order
     left_columns |-> <<>>,     \* streams callees dropped unconsumed
     left_types |-> <<>>]       \* types callees dropped unconsumed

\* `columns` / `types` of a result: the entries of the activation's stacks (and
\* of its callees') that were dropped without being popped.
Result(kind, msg, nested, array, columns, types) ==
    [kind |-> kind, msg |-> msg, nested |-> nested, array |-> array,
     columns |-> columns, types |-> types]

NoRet == Result("none", "", <<>>, NoArray, <<>>, <<>>)
Ok(nested, array, columns, types) == Result("ok", "", nested, array, columns, types)
Err(msg, columns, types) == Result("err", msg, <<>>, NoArray, columns, types)

Last(s) == s[Len(s)]
Front(s) == SubSeq(s, 1, Len(s) - 1)
\* Mutant: the type descriptor is left on the stack.
PopIgnore_keep(s) == s

\* Vec::pop with the popped value ignored: a no-op on an empty vector.
PopIgnore(s) == IF s = <<>> THEN s ELSE Front(s)

Top == Last(stack)
Running == stack # <<>>
Done == stack = <<>> /\ ret.kind # "none"

\* The activation returns `r` to its caller.
Return(r) ==
    /\ stack' = Front(stack)
    /\ ret' = r

\* A panic unwinds every activation; no value is produced.
Panic(msg) ==
    /\ stack' = <<>>
    /\ ret' = Result("panic", msg, <<>>, NoArray, <<>>, <<>>)

\* The activation `parent` (the top of the stack) calls itself recursively
\* with the activation `child`.
Call(parent, child) ==
    /\ stack' = Append(Append(Front(stack), parent), child)
    /\ ret' = NoRet

----------------------------------------------------------------------------
(* External collaborators *)

\* ArrowDataType::to_physical_type, as far as the dispatch reads it.
to_physical_type(dtype) ==
    CASE dtype.kind = "Date32" -> "Int32"
      [] dtype.kind = "Timestamp" -> "Int64"
      [] dtype.kind = "Decimal" -> "Int128"
      [] dtype.kind = "Decimal256" -> "Int256"
      [] OTHER -> dtype.kind

\* n_columns: the number of leaf columns of a schema subtree.
RECURSIVE SumColumns(_, _)
RECURSIVE n_columns(_)
n_columns(dtype) ==
    CASE dtype.kind \in ListKinds \cup {"FixedSizeList", "Map"} -> n_columns(dtype.fields[1].dtype)
      [] dtype.kind = "Struct" -> SumColumns(dtype.fields, Len(dtype.fields))
      [] OTHER -> 1
SumColumns(fields, k) ==
    IF k = 0 THEN 0 ELSE SumColumns(fields, k - 1) + n_columns(fields[k].dtype)

\* NestedContent tag of the level a marker opens.
ContentTag(marker) == marker.tag

\* PageNestedDecoder::new(..)?.collect_n(filter): either a decode error, or a
\* NestedState with one entry per marker above the leaf (the entry of the
\* Primitive marker is popped by the decoder itself) plus the leaf array.
DecodeOutcomes(init) ==
    {[ok |-> FALSE, nested |-> <<>>]}
    \cup {[ok |-> TRUE,
           nested |-> [i \in 1..(Len(init) - 1) |->
                        Entry(ContentTag(init[i]), sh[i].length, sh[i].validity)]] :
          sh \in [1..(Len(init) - 1) -> Shapes]}

MaxValues == 2      \* most values a decoded byte array holds

I128Bytes == 16
I256Bytes == 32

\* The fixed-width values a byte array is drawn from: -1, the greatest value
\* of the width, and a positive and a negative value whose bytes all differ.
ByteValues(size) ==
    {[i \in 1..size |-> 255],
     [i \in 1..size |-> IF i = 1 THEN 127 ELSE 255],
     [i \in 1..size |-> i],
     [i \in 1..size |-> IF i = 1 THEN 129 ELSE i]}

RECURSIVE Flatten(_)
Flatten(chunks) == IF chunks = <<>> THEN <<>> ELSE chunks[1] \o Flatten(SubSeq(chunks, 2, Len(chunks)))

\* What fixed_size_binary::BinaryDecoder { size } can hand back: the bytes of
\* up to MaxValues values of `size` bytes, and a validity over those values;
\* every other decoder's array is opaque.
DecodedArrays(data_type, decoder) ==
    IF decoder = "fixed_size_binary::BinaryDecoder"
    THEN UNION {{Buffer(Flatten(chunks), v) :
                    chunks \in [1..k -> ByteValues(data_type.width)], v \in Validities(k)} :
                k \in 0..MaxValues}
    ELSE {NoBuffer}

\* slice.chunks_exact(size): the consecutive chunks of `size` elements; a
\* remainder is dropped.
chunks_exact(values, size) ==
    [j \in 1..(Len(values) \div size) |-> SubSeq(values, (j - 1) * size + 1, j * size)]

\* convert_i128(value, n): the bytes are copied to the start of a zeroed 16-byte
\* buffer, read as a big-endian i128 and shifted right arithmetically by
\* 8 * (16 - n) bits.
convert_i128(value, n) ==
    LET bytes == [i \in 1..I128Bytes |-> IF i <= n THEN value[i] ELSE 0]
        shift == I128Bytes - n
        fill == IF bytes[1] >= 128 THEN 255 ELSE 0
    IN [i \in 1..I128Bytes |-> IF i <= shift THEN fill ELSE bytes[i - shift]]

\* i256(I256::new(x)): an i128 widened to 256 bits.
I256_new(x) ==
    [i \in 1..I256Bytes |->
        IF i <= I256Bytes - I128Bytes THEN (IF x[1] >= 128 THEN 255 ELSE 0)
        ELSE x[i - (I256Bytes - I128Bytes)]]

\* convert_i256(value): the bytes are copied to the end of a 32-byte buffer
\* filled with 255 if value[0] >= 128 and with 0 otherwise.
convert_i256(value) ==
    [i \in 1..I256Bytes |->
        IF i <= I256Bytes - Len(value) THEN (IF value[1] >= 128 THEN 255 ELSE 0)
        ELSE value[i - (I256Bytes - Len(value))]]

\* Mutant: the buffer is cut into chunks of the full 16 bytes.
DecimalFromBytes_wide(array, size) ==
    LET chunks == chunks_exact(array.values, I128Bytes)
    IN Buffer([j \in 1..Len(chunks) |-> convert_i128(chunks[j], I128Bytes)], array.validity)

\* array.values().chunks_exact(size).map(|value| convert_i128(value, size)),
\* array.validity().cloned()
DecimalFromBytes(array, size) ==
    LET chunks == chunks_exact(array.values, size)
    IN Buffer([j \in 1..Len(chunks) |-> convert_i128(chunks[j], size)], array.validity)

\* The conversion each arm applies to the decoded array.
Convert(conv, array, size) ==
    CASE conv = "convert_i128" -> DecimalFromBytes(array, size)
      [] conv = "i256(convert_i128)" ->
            LET chunks == chunks_exact(array.values, size)
            IN Buffer([j \in 1..Len(chunks) |-> I256_new(convert_i128(chunks[j], size))],
                      array.validity)
      [] conv = "convert_i256" ->
            LET chunks == chunks_exact(array.values, size)
            IN Buffer([j \in 1..Len(chunks) |-> convert_i256(chunks[j])], array.validity)
      [] OTHER -> Buffer(<<>>, array.validity)

\* The leaf array an arm returns: the decoded array, converted.
Converted(leaf, array, size, nested) ==
    LET made == Convert(leaf.conv, array, size)
    IN [leaf EXCEPT !.values = made.values, !.validity = made.validity,
                    !.raw = array,
                    !.raw_nested = IF leaf.decoder = "fixed_size_binary::BinaryDecoder"
                                   THEN nested ELSE <<>>]

\* One call of the page-level decoder, as the history records it.
DecodeCall(stream, data_type, decoder, init) ==
    [stream |-> stream, data_type |-> data_type, decoder |-> decoder, init |-> init]

\* Mutant: a missing stream is decoded as an empty default stream.
DecodeLeaf_missing(columns, types, data_type, decoder, init, out_type, conv) ==
    LET stream == IF columns = <<>> THEN 0 ELSE Last(columns)
    IN /\ decoded' = Append(decoded, DecodeCall(stream, data_type, decoder, init))
       /\ \E r \in DecodeOutcomes(init) :
             IF r.ok
             THEN \E a \in DecodedArrays(data_type, decoder) :
                     Return(Ok(r.nested,
                               Converted(LeafArray(out_type, stream, decoder, conv), a,
                                         data_type.width, r.nested),
                               PopIgnore(columns), types))
             ELSE Return(Err("decoder failure", PopIgnore(columns), types))

\* PageNestedDecoder::new(columns.pop().unwrap(), data_type, decoder, init)?
\*     .collect_n(filter)?  followed by the conversion `conv` into `out_type`.
DecodeLeaf(columns, types, data_type, decoder, init, out_type, conv) ==
    IF columns = <<>>
    THEN Panic("columns.pop().unwrap()") /\ UNCHANGED decoded
    ELSE /\ decoded' = Append(decoded, DecodeCall(Last(columns), data_type, decoder, init))
         /\ \E r \in DecodeOutcomes(init) :
               IF r.ok
               THEN \E a \in DecodedArrays(data_type, decoder) :
                       Return(Ok(r.nested,
                                 Converted(LeafArray(out_type, Last(columns), decoder, conv),
                                           a, data_type.width, r.nested),
                                 Front(columns), types))
               ELSE Return(Err("decoder failure", Front(columns), types))

----------------------------------------------------------------------------
(* The dispatch of columns_to_iter_recursive, one action per match arm *)

AtArm(arm) ==
    /\ Running
    /\ Top.pc = "enter"
    /\ arm

\* The decoder each direct arm constructs.
DirectDecoder(kind) ==
    CASE kind = "Null" -> "null::NullDecoder"
      [] kind = "Boolean" -> "boolean::BooleanDecoder"
      [] kind = "Int8" -> "IntDecoder<i32,i8>::cast_as"
      [] kind = "Int16" -> "IntDecoder<i32,i16>::cast_as"
      [] kind = "Int32" -> "IntDecoder<i32,i32>::unit"
      [] kind = "Int64" -> "IntDecoder<i64,i64>::unit"
      [] kind = "UInt8" -> "IntDecoder<i32,u8>::cast_as"
      [] kind = "UInt16" -> "IntDecoder<i32,u16>::cast_as"
      [] kind = "UInt64" -> "IntDecoder<i64,u64>::cast_as"
      [] kind = "Float32" -> "FloatDecoder<f32>::unit"
      [] kind = "Float64" -> "FloatDecoder<f64>::unit"
      [] OTHER -> "binview::BinViewDecoder"

PrimitiveMarker(f) == Marker("Primitive", f.field.is_nullable, 0)

\* Null, Boolean, Primitive(Int8 .. Float64) except UInt32, BinaryView | Utf8View:
\* push the Primitive marker, pop (and ignore) one type, pop one stream, decode.
DirectLeaf ==
    /\ AtArm(to_physical_type(Top.field.dtype) \in DirectKinds)
    /\ LET f == Top
           init == Append(f.init, PrimitiveMarker(f))
       IN DecodeLeaf(f.columns, PopIgnore(f.types), f.field.dtype,
                     DirectDecoder(to_physical_type(f.field.dtype)), init,
                     f.field.dtype, "")
    /\ UNCHANGED <<others, field0, columns0, types0, init0, debug>>

\* Mutant: every integer-like physical type is accepted.
UInt32Decoder_lenient(pt) ==
    CASE pt = "Int32" -> "IntDecoder<i32,u32>::cast_as"
      [] pt \in {"Int64", "Int96"} -> "IntDecoder<i64,u32>::cast_as"
      [] OTHER -> ""

\* The physical types the Primitive(UInt32) arm decodes, with their decoders.
UInt32Decoder(pt) ==
    CASE pt = "Int32" -> "IntDecoder<i32,u32>::cast_as"
      [] pt = "Int64" -> "IntDecoder<i64,u32>::cast_as"
      [] OTHER -> ""

\* Primitive(UInt32): the popped physical type selects the decoder.
UInt32Leaf ==
    /\ AtArm(to_physical_type(Top.field.dtype) = "UInt32")
    /\ LET f == Top
           init == Append(f.init, PrimitiveMarker(f))
       IN IF f.types = <<>>
          THEN Panic("types.pop().unwrap()") /\ UNCHANGED decoded
          ELSE LET type_ == Last(f.types)
                   types == Front(f.types)
               IN IF UInt32Decoder(type_.pt) # ""
                  THEN DecodeLeaf(f.columns, types, f.field.dtype,
                                  UInt32Decoder(type_.pt), init, f.field.dtype, "")
                  ELSE /\ Return(Err("deserializing UInt32 from other physical type",
                                     f.columns, types))
                       /\ UNCHANGED decoded
    /\ UNCHANGED <<others, field0, columns0, types0, init0, debug>>

\* LargeBinary | LargeUtf8 | Binary | Utf8 => unreachable!()
UnreachableArm ==
    /\ AtArm(to_physical_type(Top.field.dtype) \in UnreachableKinds)
    /\ Panic("unreachable!()")
    /\ UNCHANGED <<others, field0, columns0, types0, init0, debug, decoded>>

\* The arms of the inner match on to_logical_type().
AtLogicalArm(arm) ==
    AtArm(/\ to_physical_type(Top.field.dtype) \notin DirectKinds \cup {"UInt32"} \cup UnreachableKinds
          /\ arm)

\* ArrowDataType::Dictionary(key_type, value_type, _)
DictionaryLeaf ==
    /\ AtLogicalArm(Top.field.dtype.kind = "Dictionary")
    /\ LET f == Top
           init == Append(f.init, PrimitiveMarker(f))
       IN IF f.field.dtype.value # "Utf8View"
          THEN Panic("assert value_type is Utf8View") /\ UNCHANGED decoded
          ELSE IF ~HasCategoricalMarker(f.field.metadata)
          THEN DecodeLeaf(f.columns, f.types, LeafDT("Utf8View"),
                          "binview::BinViewDecoder", init, f.field.dtype, "cast")
          ELSE IF f.field.dtype.key # "UInt32"
          THEN Panic("assert key_type is UInt32") /\ UNCHANGED decoded
          ELSE DecodeLeaf(f.columns, f.types, f.field.dtype,
                          "CategoricalDecoder", init, f.field.dtype, "")
    /\ UNCHANGED <<others, field0, columns0, types0, init0, debug>>

\* Mutant: the catch-all arm aborts instead of returning an error.
CatchAllArm_panics ==
    /\ Running
    /\ Top.pc = "enter"
    /\ to_physical_type(Top.field.dtype) \notin DirectKinds \cup {"UInt32"} \cup UnreachableKinds
    /\ Top.field.dtype.kind \notin
          {"Dictionary", "List", "LargeList", "FixedSizeList", "Decimal",
           "Decimal256", "Struct", "Map"}
    /\ Panic("todo!()")
    /\ UNCHANGED <<others, field0, columns0, types0, init0, debug, decoded>>

\* other => polars_bail!("Deserializing type {other:?} from parquet")
CatchAllArm ==
    /\ AtLogicalArm(Top.field.dtype.kind \notin
                      {"Dictionary", "List", "LargeList", "FixedSizeList", "Decimal",
                       "Decimal256", "Struct", "Map"})
    /\ Return(Err("Deserializing type from parquet", Top.columns, Top.types))
    /\ UNCHANGED <<others, field0, columns0, types0, init0, debug, decoded>>

----------------------------------------------------------------------------
(* Decimal arms *)

Plan(act, data_type, decoder, conv, msg) ==
    [act |-> act, data_type |-> data_type, decoder |-> decoder, conv |-> conv, msg |-> msg]

FixedSizeBinaryDT(size) == DT("FixedSizeBinary", <<>>, size, "", "")

\* Mutant: the width guard is missing, wide byte arrays are decoded.
Decimal128Plan_truncating(dtype, type_) ==
    CASE type_.pt = "Int32" -> Plan("decode", dtype, "IntDecoder<i32,i128>::cast_into", "", "")
      [] type_.pt = "Int64" -> Plan("decode", dtype, "IntDecoder<i64,i128>::cast_into", "", "")
      [] type_.pt = "FixedLenByteArray" ->
            Plan("decode", FixedSizeBinaryDT(type_.n), "fixed_size_binary::BinaryDecoder",
                 "convert_i128", "")
      [] OTHER -> Plan("err", dtype, "", "", "Deserializing type for Decimal from parquet")

\* match type_.physical_type of the ArrowDataType::Decimal arm
Decimal128Plan(dtype, type_) ==
    CASE type_.pt = "Int32" -> Plan("decode", dtype, "IntDecoder<i32,i128>::cast_into", "", "")
      [] type_.pt = "Int64" -> Plan("decode", dtype, "IntDecoder<i64,i128>::cast_into", "", "")
      [] type_.pt = "FixedLenByteArray" /\ type_.n > Decimal128MaxBytes ->
            Plan("err", dtype, "", "", "Can't decode Decimal128 type from FixedLenByteArray")
      [] type_.pt = "FixedLenByteArray" /\ ~(type_.n > Decimal128MaxBytes) ->
            Plan("decode", FixedSizeBinaryDT(type_.n), "fixed_size_binary::BinaryDecoder",
                 "convert_i128", "")
      [] OTHER -> Plan("err", dtype, "", "", "Deserializing type for Decimal from parquet")

\* match type_.physical_type of the ArrowDataType::Decimal256 arm
Decimal256Plan(dtype, type_) ==
    CASE type_.pt = "Int32" -> Plan("decode", dtype, "IntDecoder::closure(i32 -> i256)", "", "")
      [] type_.pt = "Int64" -> Plan("decode", dtype, "IntDecoder::closure(i64 -> i256)", "", "")
      [] type_.pt = "FixedLenByteArray" /\ type_.n <= Decimal128MaxBytes ->
            Plan("decode", FixedSizeBinaryDT(type_.n), "fixed_size_binary::BinaryDecoder",
                 "i256(convert_i128)", "")
      [] type_.pt = "FixedLenByteArray" /\ type_.n > Decimal128MaxBytes
                                       /\ type_.n <= Decimal256MaxBytes ->
            Plan("decode", FixedSizeBinaryDT(type_.n), "fixed_size_binary::BinaryDecoder",
                 "convert_i256", "")
      [] type_.pt = "FixedLenByteArray" /\ type_.n > Decimal256MaxBytes ->
            Plan("err", dtype, "", "", "Can't decode Decimal256 type from FixedLenByteArray")
      [] OTHER -> Plan("err", dtype, "", "", "Deserializing type for Decimal from parquet")

\* Both decimal arms: push the Primitive marker, pop one type (unwrap), then
\* either bail out or pop one stream and decode.
DecimalArm(f, plan) ==
    LET init == Append(f.init, PrimitiveMarker(f))
    IN IF f.types = <<>>
       THEN Panic("types.pop().unwrap()") /\ UNCHANGED decoded
       ELSE IF plan.act = "decode"
       THEN DecodeLeaf(f.columns, Front(f.types), plan.data_type, plan.decoder, init,
                       f.field.dtype, plan.conv)
       ELSE Return(Err(plan.msg, f.columns, Front(f.types))) /\ UNCHANGED decoded

DecimalLeaf ==
    /\ AtLogicalArm(Top.field.dtype.kind = "Decimal")
    /\ DecimalArm(Top, IF Top.types = <<>> THEN Plan("", Top.field.dtype, "", "", "")
                       ELSE Decimal128Plan(Top.field.dtype, Last(Top.types)))
    /\ UNCHANGED <<others, field0, columns0, types0, init0, debug>>

Decimal256Leaf ==
    /\ AtLogicalArm(Top.field.dtype.kind = "Decimal256")
    /\ DecimalArm(Top, IF Top.types = <<>> THEN Plan("", Top.field.dtype, "", "", "")
                       ELSE Decimal256Plan(Top.field.dtype, Last(Top.types)))
    /\ UNCHANGED <<others, field0, columns0, types0, init0, debug>>

----------------------------------------------------------------------------
(* List, LargeList, FixedSizeList, Map *)

\* The marker a one-child container pushes before recursing.
ContainerMarker(field) ==
    IF field.dtype.kind = "FixedSizeList"
    THEN Marker("FixedSizeList", field.is_nullable, field.dtype.width)
    ELSE Marker("List", field.is_nullable, 0)

\* init.push(marker); columns_to_iter_recursive(columns, types, inner, init, filter)
\* The stacks are moved into the callee.
EnterContainer(f) ==
    Call([f EXCEPT !.pc = "child", !.columns = <<>>, !.types = <<>>],
         Frame(f.field.dtype.fields[1], f.columns, f.types,
               Append(f.init, ContainerMarker(f.field))))

\* create_list / create_map: pop the last NestedState entry and wrap the child
\* array with its length and validity.
create_list(node, dtype, nested, array) ==
    IF nested = <<>>
    THEN [panic |-> TRUE, nested |-> nested, array |-> NoArray]
    ELSE [panic |-> FALSE, nested |-> Front(nested),
          array |-> ContainerArray(node, dtype, <<array>>, Last(nested).length,
                                   Last(nested).validity)]

\* Mutant: the callee's error is swallowed and an empty container is built.
LeaveContainer_swallow(f, node) ==
    IF ret.kind = "err"
    THEN Return(Ok(<<>>, ContainerArray(node, f.field.dtype, <<>>, 0, None),
                   ret.columns, ret.types))
    ELSE LET made == create_list(node, f.field.dtype, ret.nested, ret.array)
         IN IF made.panic
            THEN Panic("nested.pop().unwrap()")
            ELSE Return(Ok(made.nested, made.array, ret.columns, ret.types))

\* Mutant: the level's NestedState entry is read but left in place.
LeaveContainer_keep(f, node) ==
    IF ret.kind = "err"
    THEN Return(ret)
    ELSE LET made == create_list(node, f.field.dtype, ret.nested, ret.array)
         IN IF made.panic
            THEN Panic("nested.pop().unwrap()")
            ELSE Return(Ok(ret.nested, made.array, ret.columns, ret.types))

\* The `?` after the recursive call, then create_list / create_map.
LeaveContainer(f, node) ==
    IF ret.kind = "err"
    THEN Return(ret)
    ELSE LET made == create_list(node, f.field.dtype, ret.nested, ret.array)
         IN IF made.panic
            THEN Panic("nested.pop().unwrap()")
            ELSE Return(Ok(made.nested, made.array, ret.columns, ret.types))

AtReturn(arm) ==
    /\ Running
    /\ Top.pc = "child"
    /\ ret.kind \in {"ok", "err"}
    /\ arm

ListEnter ==
    /\ AtLogicalArm(Top.field.dtype.kind \in ListKinds)
    /\ EnterContainer(Top)
    /\ UNCHANGED <<others, field0, columns0, types0, init0, debug, decoded>>

ListReturn ==
    /\ AtReturn(Top.field.dtype.kind \in ListKinds)
    /\ LeaveContainer(Top, "list")
    /\ UNCHANGED <<others, field0, columns0, types0, init0, debug, decoded>>

FixedSizeListEnter ==
    /\ AtLogicalArm(Top.field.dtype.kind = "FixedSizeList")
    /\ EnterContainer(Top)
    /\ UNCHANGED <<others, field0, columns0, types0, init0, debug, decoded>>

FixedSizeListReturn ==
    /\ AtReturn(Top.field.dtype.kind = "FixedSizeList")
    /\ LeaveContainer(Top, "fixed_size_list")
    /\ UNCHANGED <<others, field0, columns0, types0, init0, debug, decoded>>

MapEnter ==
    /\ AtLogicalArm(Top.field.dtype.kind = "Map")
    /\ EnterContainer(Top)
    /\ UNCHANGED <<others, field0, columns0, types0, init0, debug, decoded>>

MapReturn ==
    /\ AtReturn(Top.field.dtype.kind = "Map")
    /\ LeaveContainer(Top, "map")
    /\ UNCHANGED <<others, field0, columns0, types0, init0, debug, decoded>>

----------------------------------------------------------------------------
(* Struct *)

\* Vec::split_off(at): the vector keeps [0, at), the result holds [at, len).
split_off(s, at) == [keep |-> SubSeq(s, 1, at), off |-> SubSeq(s, at + 1, Len(s))]

\* Mutant: field_arrays is left in consumption order.
Reverse_none(s) == s

Reverse(s) == [i \in 1..Len(s) |-> s[Len(s) + 1 - i]]

\* Mutant: the closure pushes onto the struct's own `init` instead of a clone.
field_to_nested_array_shared(f, idx) ==
    LET struct_field == f.field.dtype.fields[idx]
        init == Append(f.init, Marker("Struct", f.field.is_nullable, 0))
        n == n_columns(struct_field.dtype)
    IN IF n > Len(f.columns) \/ n > Len(f.types)
       THEN Panic("split_off out of bounds")
       ELSE LET columns == split_off(f.columns, Len(f.columns) - n)
                types == split_off(f.types, Len(f.types) - n)
            IN Call([f EXCEPT !.pc = "child", !.idx = idx, !.init = init,
                              !.columns = columns.keep, !.types = types.keep],
                    Frame(struct_field, columns.off, types.off, init))

\* The closure field_to_nested_array, called by the Struct activation `f` for
\* its idx-th declared field.  `columns.len() - n` below zero panics (overflow
\* check in a debug build, split_off's bound check otherwise).
field_to_nested_array(f, idx) ==
    LET struct_field == f.field.dtype.fields[idx]
        init == Append(f.init, Marker("Struct", f.field.is_nullable, 0))
        n == n_columns(struct_field.dtype)
    IN IF n > Len(f.columns) \/ n > Len(f.types)
       THEN Panic("split_off out of bounds")
       ELSE LET columns == split_off(f.columns, Len(f.columns) - n)
                types == split_off(f.types, Len(f.types) - n)
            IN Call([f EXCEPT !.pc = "child", !.idx = idx,
                              !.columns = columns.keep, !.types = types.keep],
                    Frame(struct_field, columns.off, types.off, init))

\* Mutant: the bitmaps are compared without collapsing them.
ValidityAgrees_raw(field_validity, struct_validity) ==
    field_validity = struct_validity

\* debug_assert_eq!(_nested.pop().unwrap().2.and_then(freeze_validity),
\*                  struct_validity.clone().and_then(freeze_validity))
ValidityAgrees(field_validity, struct_validity) ==
    Collapse(field_validity) = Collapse(struct_validity)

\* field_arrays.reverse(); StructArray::new(dtype, length, field_arrays,
\*                                         struct_validity.and_then(freeze_validity))
StructArray(dtype, length, field_arrays, struct_validity) ==
    ContainerArray("struct", dtype, Reverse(field_arrays), length, Collapse(struct_validity))

\* Mutant: fields.last() is unwrapped without the zero-field check.
StructEnter_unchecked ==
    /\ Running
    /\ Top.pc = "enter"
    /\ Top.field.dtype.kind = "Struct"
    /\ IF Top.field.dtype.fields = <<>>
       THEN Panic("fields.last().unwrap()")
       ELSE field_to_nested_array(Top, Len(Top.field.dtype.fields))
    /\ UNCHANGED <<others, field0, columns0, types0, init0, debug, decoded>>

\* ArrowDataType::Struct(fields): zero fields is an error, otherwise the last
\* declared field is reconstructed first.
StructEnter ==
    /\ AtLogicalArm(Top.field.dtype.kind = "Struct")
    /\ IF Top.field.dtype.fields = <<>>
       THEN Return(Err("Struct has zero fields", Top.columns, Top.types))
       ELSE field_to_nested_array(Top, Len(Top.field.dtype.fields))
    /\ UNCHANGED <<others, field0, columns0, types0, init0, debug, decoded>>

\* Mutant: the struct-level entry of every field overwrites the struct shape.
StructShape_lastwins(f, first, nested) ==
    IF nested = <<>>
    THEN [nested |-> f.nested, length |-> f.length, validity |-> f.struct_validity]
    ELSE [nested |-> Front(nested), length |-> Last(nested).length,
          validity |-> Last(nested).validity]

\* let (length, _, struct_validity) = nested.pop().unwrap(): bound once, from the
\* NestedState of the first field processed; the loop over the other fields
\* leaves `nested`, `length` and `struct_validity` alone.
StructShape(f, first, nested) ==
    IF first
    THEN [nested |-> Front(nested), length |-> Last(nested).length,
          validity |-> Last(nested).validity]
    ELSE [nested |-> f.nested, length |-> f.length, validity |-> f.struct_validity]

\* A field's recursion came back to the Struct activation: `?`, the struct-level
\* NestedState entry, then the next field or the StructArray.
StructReturn ==
    /\ AtReturn(Top.field.dtype.kind = "Struct")
    /\ LET f == Top
           first == f.idx = Len(f.field.dtype.fields)
           left_columns == f.left_columns \o ret.columns
           left_types == f.left_types \o ret.types
       IN IF ret.kind = "err"
          THEN Return(Err(ret.msg, f.columns \o left_columns, f.types \o left_types))
          ELSE IF (first \/ debug) /\ ret.nested = <<>>
          THEN Panic("nested.last().unwrap()")
          ELSE IF debug /\ Last(ret.nested).tag # "Struct"
          THEN Panic("debug_assert NestedContent::Struct")
          ELSE IF ~first /\ debug
                  /\ ~ValidityAgrees(Last(ret.nested).validity, f.struct_validity)
          THEN Panic("debug_assert_eq struct validity")
          ELSE LET shape == StructShape(f, first, ret.nested)
                   g == [f EXCEPT !.nested = shape.nested,
                                  !.length = shape.length,
                                  !.struct_validity = shape.validity,
                                  !.field_arrays = Append(@, ret.array),
                                  !.field_validity =
                                      IF ret.nested = <<>> THEN @
                                      ELSE Append(@, Last(ret.nested).validity),
                                  !.field_nested = Append(@, ret.nested),
                                  !.left_columns = left_columns,
                                  !.left_types = left_types]
               IN IF f.idx > 1
                  THEN field_to_nested_array(g, f.idx - 1)
                  ELSE Return(Ok(g.nested,
                                 StructArray(f.field.dtype, g.length, g.field_arrays,
                                             g.struct_validity),
                                 g.columns \o g.left_columns, g.types \o g.left_types))
    /\ UNCHANGED <<others, field0, columns0, types0, init0, debug, decoded>>

----------------------------------------------------------------------------
(* comma_delimited (polars-plan/src/utils.rs) *)

MaxItems == 2   \* longest `items` slice
MaxStr == 2     \* longest prefix and longest item, in characters

\* A String is the sequence of its characters.
PrefixChars == {"a", "b"}
ItemChars == {"x"}

Strings(chars, n) == UNION {[1..k -> chars] : k \in 0..n}

\* String::push_str
push_str(s, c) == s \o c

\* String::pop: removes the last character, if there is one.
pop(s) == IF s = <<>> THEN s ELSE Front(s)

CommaCall(pc, prefix, items, s, i) ==
    [pc |-> pc, prefix |-> prefix, items |-> items, s |-> s, i |-> i]

CommaIdle == CommaCall("idle", <<>>, <<>>, <<>>, 0)

\* s.push('(')
CommaOpen ==
    /\ comma.pc = "start"
    /\ comma' = [comma EXCEPT !.pc = "loop", !.s = push_str(@, <<"(">>), !.i = 1]
    /\ UNCHANGED <<field0, columns0, types0, init0, debug, stack, ret, decoded,
                   PYTHON_CONVERT_REGISTRY, threads>>

\* for c in items { s.push_str(c.as_ref()); s.push_str(", "); }
CommaItem ==
    /\ comma.pc = "loop"
    /\ comma.i <= Len(comma.items)
    /\ comma' = [comma EXCEPT
                    !.s = push_str(push_str(@, comma.items[comma.i]), <<",", " ">>),
                    !.i = @ + 1]
    /\ UNCHANGED <<field0, columns0, types0, init0, debug, stack, ret, decoded,
                   PYTHON_CONVERT_REGISTRY, threads>>

\* s.pop(); s.pop(); s.push(')'); s
CommaClose ==
    /\ comma.pc = "loop"
    /\ comma.i > Len(comma.items)
    /\ comma' = [comma EXCEPT !.pc = "done", !.s = push_str(pop(pop(@)), <<")">>)]
    /\ UNCHANGED <<field0, columns0, types0, init0, debug, stack, ret, decoded,
                   PYTHON_CONVERT_REGISTRY, threads>>

----------------------------------------------------------------------------
(* PYTHON_CONVERT_REGISTRY (polars-utils/src/python_convert_registry.rs) *)

NumThreads == 3     \* threads, each making one call

Threads == 1..NumThreads

\* PythonConvertRegistry { from_py, to_py }; the callbacks are named by a number.
Registry(from_py, to_py) == [from_py |-> from_py, to_py |-> to_py]

\* The argument of the register_converters call of thread t.
ArgOf(t) == Registry(t, t)

\* RwLock<Option<PythonConvertRegistry>>: the lock word (writer, readers) and
\* the protected Option (some, value).
RwLock(writer, readers, some, value) ==
    [writer |-> writer, readers |-> readers, some |-> some, value |-> value]

\* LazyLock::new(Default::default): unlocked, None.
RegistryDefault == RwLock(0, {}, FALSE, Registry(0, 0))

\* One thread: the call it makes, where it is in it, what a get returned, and
\* (history) for a get the register calls that had returned when it took the
\* read lock, for a register the calls that had taken the write lock before it.
Thread(op, pc, result, after) == [op |-> op, pc |-> pc, result |-> result, after |-> after]

\* Mutant: the read lock is granted while a writer holds the lock.
CanRead_racy(l) == TRUE

\* RwLock::read is granted when no writer holds the lock.
CanRead(l) == l.writer = 0

\* RwLock::write is granted when nobody holds the lock.
CanWrite(l) == l.writer = 0 /\ l.readers = {}

\* The register_converters calls that have taken the write lock.
TookWrite == {t \in Threads : threads[t].op = "register" /\ threads[t].pc # "start"}

\* The register_converters calls that have returned.
Registered == {t \in Threads : threads[t].op = "register" /\ threads[t].pc = "done"}

\* get_python_convert_registry: .read().unwrap()
GetRead(t) ==
    /\ threads[t].op = "get"
    /\ threads[t].pc = "start"
    /\ CanRead(PYTHON_CONVERT_REGISTRY)
    /\ PYTHON_CONVERT_REGISTRY' =
          [PYTHON_CONVERT_REGISTRY EXCEPT !.readers = @ \cup {t}]
    /\ threads' = [threads EXCEPT ![t].pc = "as_ref", ![t].after = Registered]
    /\ UNCHANGED <<field0, columns0, types0, init0, debug, stack, ret, decoded, comma>>

\* .as_ref().unwrap(): a panic on None, which drops the read guard.
GetUnwrap(t) ==
    /\ threads[t].pc = "as_ref"
    /\ IF PYTHON_CONVERT_REGISTRY.some
       THEN /\ threads' = [threads EXCEPT ![t].pc = "clone_from_py"]
            /\ UNCHANGED PYTHON_CONVERT_REGISTRY
       ELSE /\ threads' = [threads EXCEPT ![t].pc = "panicked"]
            /\ PYTHON_CONVERT_REGISTRY' =
                  [PYTHON_CONVERT_REGISTRY EXCEPT !.readers = @ \ {t}]
    /\ UNCHANGED <<field0, columns0, types0, init0, debug, stack, ret, decoded, comma>>

\* .clone(), derived: the field from_py is cloned first,
GetCloneFromPy(t) ==
    /\ threads[t].pc = "clone_from_py"
    /\ threads' = [threads EXCEPT
                      ![t].pc = "clone_to_py",
                      ![t].result.from_py = PYTHON_CONVERT_REGISTRY.value.from_py]
    /\ UNCHANGED <<field0, columns0, types0, init0, debug, stack, ret, decoded, comma,
                   PYTHON_CONVERT_REGISTRY>>

\* then the field to_py; the read guard is dropped at the end of the statement.
GetCloneToPy(t) ==
    /\ threads[t].pc = "clone_to_py"
    /\ threads' = [threads EXCEPT
                      ![t].pc = "done",
                      ![t].result.to_py = PYTHON_CONVERT_REGISTRY.value.to_py]
    /\ PYTHON_CONVERT_REGISTRY' =
          [PYTHON_CONVERT_REGISTRY EXCEPT !.readers = @ \ {t}]
    /\ UNCHANGED <<field0, columns0, types0, init0, debug, stack, ret, decoded, comma>>

\* register_converters: .write().unwrap()
RegisterWrite(t) ==
    /\ threads[t].op = "register"
    /\ threads[t].pc = "start"
    /\ CanWrite(PYTHON_CONVERT_REGISTRY)
    /\ PYTHON_CONVERT_REGISTRY' = [PYTHON_CONVERT_REGISTRY EXCEPT !.writer = t]
    /\ threads' = [threads EXCEPT ![t].pc = "store_from_py", ![t].after = TookWrite]
    /\ UNCHANGED <<field0, columns0, types0, init0, debug, stack, ret, decoded, comma>>

\* *guard = Some(registry): the value is moved into the lock field by field,
RegisterStoreFromPy(t) ==
    /\ threads[t].pc = "store_from_py"
    /\ PYTHON_CONVERT_REGISTRY' =
          [PYTHON_CONVERT_REGISTRY EXCEPT !.some = TRUE,
                                          !.value.from_py = ArgOf(t).from_py]
    /\ threads' = [threads EXCEPT ![t].pc = "store_to_py"]
    /\ UNCHANGED <<field0, columns0, types0, init0, debug, stack, ret, decoded, comma>>

\* and the write guard is dropped at the end of the statement.
RegisterStoreToPy(t) ==
    /\ threads[t].pc = "store_to_py"
    /\ PYTHON_CONVERT_REGISTRY' =
          [PYTHON_CONVERT_REGISTRY EXCEPT !.value.to_py = ArgOf(t).to_py,
                                          !.writer = 0]
    /\ threads' = [threads EXCEPT ![t].pc = "done"]
    /\ UNCHANGED <<field0, columns0, types0, init0, debug, stack, ret, decoded, comma>>

----------------------------------------------------------------------------
(* Inputs of the top-level call *)

LeafKinds ==
    DirectKinds \cup {"UInt32", "Decimal", "Decimal256"} \cup TemporalKinds
    \cup UnreachableKinds \cup OtherKinds

Nullability(kind) == IF kind \in {"Int32", "Utf8View", "Decimal"} THEN BOOLEAN ELSE {TRUE}

DictionaryFields ==
    {Fld(DictDT(k, v), TRUE, md) :
        k \in {"UInt8", "UInt32", "Int64"}, v \in {"Utf8View", "Int32"}, md \in Metadata}

\* Schemas that are a single leaf.
LeafSchemas ==
    UNION {{Fld(LeafDT(k), n, "absent") : n \in Nullability(k)} : k \in LeafKinds}
    \cup DictionaryFields

I32 == Fld(LeafDT("Int32"), TRUE, "absent")
U32 == Fld(LeafDT("UInt32"), TRUE, "absent")
F16 == Fld(LeafDT("Float16"), TRUE, "absent")
Dict == Fld(DictDT("UInt32", "Utf8View"), TRUE, "absent")

NestLeaves == {I32, U32, F16, Dict}

ListOf(inner) == Fld(ListDT("List", inner), TRUE, "absent")
MapOf(inner) == Fld(ListDT("Map", inner), TRUE, "absent")
StructOf(fields) == Fld(StructDT(fields), TRUE, "absent")

OneChild(inner) ==
    {ListOf(inner), MapOf(inner),
     Fld(ListDT("LargeList", inner), FALSE, "absent"),
     Fld(FixedSizeListDT(inner, 2), TRUE, "absent")}

\* One container level over leaves: lists, and structs of zero to two fields
\* (nullable or not) plus one of three fields.
FlatSchemas ==
    UNION {OneChild(l) : l \in NestLeaves}
    \cup {StructOf(<<>>), Fld(StructDT(<<I32>>), FALSE, "absent"),
          StructOf(<<I32, U32, I32>>)}
    \cup {StructOf(<<a>>) : a \in NestLeaves}
    \cup {StructOf(<<a, b>>) : a \in NestLeaves, b \in NestLeaves}

\* Two and three container levels.
DeepSchemas ==
    {ListOf(ListOf(I32)),
     ListOf(StructOf(<<I32, I32>>)),
     MapOf(StructOf(<<I32, U32>>)),
     Fld(FixedSizeListDT(StructOf(<<I32, I32>>), 2), TRUE, "absent"),
     StructOf(<<ListOf(I32), I32>>),
     StructOf(<<I32, ListOf(I32)>>),
     StructOf(<<StructOf(<<I32, I32>>), I32>>),
     StructOf(<<I32, StructOf(<<I32, I32>>)>>),
     StructOf(<<StructOf(<<>>), I32>>),
     StructOf(<<I32, StructOf(<<>>)>>),
     StructOf(<<StructOf(<<I32>>)>>),
     StructOf(<<StructOf(<<I32>>), F16>>),
     ListOf(StructOf(<<I32, ListOf(I32)>>))}

Schemas == LeafSchemas \cup FlatSchemas \cup DeepSchemas

PInt32 == Phys("Int32", 0)
PBoolean == Phys("Boolean", 0)

\* The type stacks a schema is entered with: every physical type on top of the
\* stack for a single leaf, Int32 or Boolean columns for one container level,
\* Int32 columns below that.
TypeStacks(field, n) ==
    IF field \in LeafSchemas
    THEN {t \in [1..n -> PhysicalTypes] : \A i \in 1..(n - 1) : t[i] = PInt32}
    ELSE IF field \in FlatSchemas
    THEN [1..n -> {PInt32, PBoolean}]
    ELSE [1..n -> {PInt32}]

\* The markers a caller enters the top-level call with: none, and for a few
\* schemas entered with exactly their own streams also the marker of one
\* enclosing list.
InitialMarkers(field, n) ==
    IF /\ field \in {I32, Fld(LeafDT("Decimal"), TRUE, "absent"), ListOf(I32),
                     StructOf(<<I32, ListOf(I32)>>)}
       /\ n = n_columns(field.dtype)
    THEN {<<>>, <<Marker("List", TRUE, 0)>>}
    ELSE {<<>>}

Init ==
    /\ field0 \in Schemas
    /\ columns0 \in {[i \in 1..n |-> i] : n \in 0..MaxCols}
    /\ types0 \in TypeStacks(field0, Len(columns0))
    /\ init0 \in InitialMarkers(field0, Len(columns0))
    /\ debug \in BOOLEAN
    /\ stack = <<Frame(field0, columns0, types0, init0)>>
    /\ ret = NoRet
    /\ decoded = <<>>
    /\ comma = CommaIdle
    /\ PYTHON_CONVERT_REGISTRY = RegistryDefault
    /\ threads = <<>>

Next ==
    \/ DirectLeaf
    \/ UInt32Leaf
    \/ UnreachableArm
    \/ DictionaryLeaf
    \/ DecimalLeaf
    \/ Decimal256Leaf
    \/ ListEnter
    \/ ListReturn
    \/ FixedSizeListEnter
    \/ FixedSizeListReturn
    \/ MapEnter
    \/ MapReturn
    \/ StructEnter
    \/ StructReturn
    \/ CatchAllArm

Spec == Init /\ [][Next]_vars

\* No reconstruction is running.
NoReconstruction ==
    /\ field0 = I32
    /\ columns0 = <<>>
    /\ types0 = <<>>
    /\ init0 = <<>>
    /\ debug = FALSE
    /\ stack = <<>>
    /\ ret = NoRet
    /\ decoded = <<>>

\* comma_delimited, called with every prefix and every slice of items.
InitComma ==
    /\ NoReconstruction
    /\ PYTHON_CONVERT_REGISTRY = RegistryDefault
    /\ threads = <<>>
    /\ \E prefix \in Strings(PrefixChars, MaxStr) :
       \E n \in 0..MaxItems :
       \E items \in [1..n -> Strings(ItemChars, MaxStr)] :
          comma = CommaCall("start", prefix, items, prefix, 0)

NextComma ==
    \/ CommaOpen
    \/ CommaItem
    \/ CommaClose

SpecComma == InitComma /\ [][NextComma]_vars

\* Every thread makes one call: get_python_convert_registry, or
\* register_converters with a registry of its own.
InitRegistry ==
    /\ NoReconstruction
    /\ comma = CommaIdle
    /\ PYTHON_CONVERT_REGISTRY = RegistryDefault
    /\ \E ops \in [Threads -> {"get", "register"}] :
          threads = [t \in Threads |-> Thread(ops[t], "start", Registry(0, 0), {})]

NextRegistry ==
    \E t \in Threads :
        \/ GetRead(t)
        \/ GetUnwrap(t)
        \/ GetCloneFromPy(t)
        \/ GetCloneToPy(t)
        \/ RegisterWrite(t)
        \/ RegisterStoreFromPy(t)
        \/ RegisterStoreToPy(t)

SpecRegistry == InitRegistry /\ [][NextRegistry]_vars

----------------------------------------------------------------------------
(* Properties *)

LeafCount(field) == n_columns(field.dtype)

\* The last n entries of a stack, in stack order.
TailOf(s, n) == SubSeq(s, Len(s) - n + 1, Len(s))

\* The block of a struct's i-th declared field inside the struct's own block.
FieldBlock(block, fields, i) ==
    SubSeq(block, SumColumns(fields, i - 1) + 1, SumColumns(fields, i))

PrimitiveKinds == DirectKinds \cup {"UInt32"}

RECURSIVE OnlyPrimitiveLeaves(_)
OnlyPrimitiveLeaves(field) ==
    CASE field.dtype.kind = "Struct" ->
            \A i \in 1..Len(field.dtype.fields) : OnlyPrimitiveLeaves(field.dtype.fields[i])
      [] field.dtype.kind \in ListKinds \cup {"FixedSizeList", "Map"} ->
            OnlyPrimitiveLeaves(field.dtype.fields[1])
      [] OTHER -> field.dtype.kind \in PrimitiveKinds

DecodedStreams == [i \in 1..Len(decoded) |-> decoded[i].stream]

Succeeded == Done /\ ret.kind = "ok"

\* C1: conservation. A successful top-level call over a schema with only
\* primitive leaves, entered with exactly leaf_count(schema) streams and types,
\* decodes every stream exactly once and leaves both stacks empty.
C1_Conservation ==
    (/\ Succeeded
     /\ OnlyPrimitiveLeaves(field0)
     /\ Len(columns0) = LeafCount(field0)
     /\ Len(types0) = LeafCount(field0))
    => /\ Len(decoded) = LeafCount(field0)
       /\ \A c \in 1..Len(columns0) :
             Cardinality({i \in 1..Len(decoded) : decoded[i].stream = columns0[c]}) = 1
       /\ ret.columns = <<>>
       /\ ret.types = <<>>

C1_Witness ==
    /\ Succeeded
    /\ field0 = StructOf(<<StructOf(<<I32, I32>>), I32>>)
    /\ Len(columns0) = 3
    /\ Len(decoded) = 3

\* The array `arr` is the reconstruction of `field` from exactly the streams
\* `cols` and types `tys` (the field's own block, in depth-first forward order).
RECURSIVE BuiltFrom(_, _, _, _)
BuiltFrom(arr, field, cols, tys) ==
    CASE field.dtype.kind = "Struct" ->
            /\ arr.node = "struct"
            /\ arr.dtype = field.dtype
            /\ Len(arr.children) = Len(field.dtype.fields)
            /\ \A i \in 1..Len(field.dtype.fields) :
                  BuiltFrom(arr.children[i], field.dtype.fields[i],
                            FieldBlock(cols, field.dtype.fields, i),
                            FieldBlock(tys, field.dtype.fields, i))
      [] field.dtype.kind \in ListKinds \cup {"FixedSizeList", "Map"} ->
            /\ Len(arr.children) = 1
            /\ BuiltFrom(arr.children[1], field.dtype.fields[1], cols, tys)
      [] OTHER ->
            /\ arr.node = "leaf"
            /\ arr.dtype = field.dtype
            /\ cols # <<>>
            /\ arr.stream = cols[1]
            /\ field.dtype.kind = "UInt32" =>
                  /\ tys[1].pt = "Int32" => arr.decoder = "IntDecoder<i32,u32>::cast_as"
                  /\ tys[1].pt = "Int64" => arr.decoder = "IntDecoder<i64,u32>::cast_as"

\* The streams of a field's block in the order the reconstruction reaches them:
\* struct fields last-declared first.
RECURSIVE ConsumptionOrder(_, _)
RECURSIVE FieldsBackwards(_, _, _)
ConsumptionOrder(field, cols) ==
    CASE field.dtype.kind = "Struct" -> FieldsBackwards(field.dtype.fields, cols, 1)
      [] field.dtype.kind \in ListKinds \cup {"FixedSizeList", "Map"} ->
            ConsumptionOrder(field.dtype.fields[1], cols)
      [] OTHER -> cols
FieldsBackwards(fields, cols, i) ==
    IF i > Len(fields) THEN <<>>
    ELSE FieldsBackwards(fields, cols, i + 1)
         \o ConsumptionOrder(fields[i], FieldBlock(cols, fields, i))

\* C2: struct field-to-leaf mapping. With the leaves in depth-first forward
\* order at the tail of the stacks, fields are reconstructed in reverse declared
\* order, each from the contiguous block of its own subtree, and the i-th child
\* of every struct is the array of the i-th declared field.
C2_StructFieldMapping ==
    Succeeded
    => /\ BuiltFrom(ret.array, field0,
                    TailOf(columns0, LeafCount(field0)), TailOf(types0, LeafCount(field0)))
       /\ DecodedStreams = ConsumptionOrder(field0, TailOf(columns0, LeafCount(field0)))

C2_Witness ==
    /\ Succeeded
    /\ field0 = StructOf(<<I32, U32, I32>>)
    /\ ret.array.children[2].decoder = "IntDecoder<i32,u32>::cast_as"
    /\ DecodedStreams = <<3, 2, 1>>

\* A field's recursion has just come back successfully to its Struct activation.
StructFieldBack ==
    /\ Running
    /\ Top.pc = "child"
    /\ Top.field.dtype.kind = "Struct"
    /\ ret.kind = "ok"
    /\ ret.nested # <<>>

\* The struct-level validity of the members reconstructed so far, the last
\* declared member first.
MemberValidity == Append(Top.field_validity, Last(ret.nested).validity)

AllAgree(vs) == \A i, j \in 1..Len(vs) : Collapse(vs[i]) = Collapse(vs[j])

\* C3: struct validity agreement. When the struct-level validity of all N
\* members collapses to the same bitmap, the struct is built and its validity
\* equals each member's; in a debug build a member whose collapsed validity
\* differs from the last declared member's aborts the reconstruction through the
\* assertion, and no struct value is produced.
C3_StructValidity ==
    [][StructFieldBack =>
         /\ (Top.idx = 1 /\ AllAgree(MemberValidity)) =>
               /\ ret'.kind = "ok"
               /\ ret'.array.node = "struct"
               /\ \A i \in 1..Len(MemberValidity) :
                     ret'.array.validity = Collapse(MemberValidity[i])
         /\ (debug /\ Collapse(Last(ret.nested).validity) # Collapse(MemberValidity[1])) =>
               /\ ret'.kind = "panic"
               /\ ret'.msg = "debug_assert_eq struct validity"
               /\ ret'.array = NoArray
               /\ stack' = <<>>
      ]_vars

C3_Witness ==
    /\ StructFieldBack
    /\ debug
    /\ Top.idx = 1
    /\ Len(MemberValidity) >= 2
    /\ AllAgree(MemberValidity)
    /\ MemberValidity[1] # MemberValidity[2]

ZeroFieldStructAtTop ==
    /\ Running
    /\ Top.pc = "enter"
    /\ Top.field.dtype.kind = "Struct"
    /\ Len(Top.field.dtype.fields) = 0

\* C4: a struct node with zero members returns an error for every content of
\* the stacks; it does not panic and pops or decodes nothing before returning.
C4_ZeroFieldStruct ==
    [][ZeroFieldStructAtTop =>
         /\ ret'.kind = "err"
         /\ ret'.msg = "Struct has zero fields"
         /\ ret'.columns = Top.columns
         /\ ret'.types = Top.types
         /\ decoded' = decoded
         /\ stack' = Front(stack)
      ]_vars

C4_Witness ==
    /\ Done
    /\ field0 = StructOf(<<>>)
    /\ columns0 = <<>>
    /\ ret.kind = "err"
    /\ ret.msg = "Struct has zero fields"

UInt32AtTop ==
    /\ Running
    /\ Top.pc = "enter"
    /\ Top.field.dtype.kind = "UInt32"
    /\ Top.types # <<>>

\* C5: an unsigned 32-bit leaf is decoded only when the popped physical type is
\* Int32 or Int64; every other physical type returns the physical-mismatch
\* error and the stream is never decoded.
C5_UInt32Physical ==
    [][UInt32AtTop =>
         IF Last(Top.types).pt \in {"Int32", "Int64"}
         THEN decoded' # decoded =>
                /\ Top.columns # <<>>
                /\ decoded' = Append(decoded, Last(decoded'))
                /\ Last(decoded').stream = Last(Top.columns)
                /\ Last(decoded').data_type = Top.field.dtype
                /\ Last(decoded').decoder =
                      (IF Last(Top.types).pt = "Int32"
                       THEN "IntDecoder<i32,u32>::cast_as"
                       ELSE "IntDecoder<i64,u32>::cast_as")
         ELSE /\ ret'.kind = "err"
              /\ ret'.msg = "deserializing UInt32 from other physical type"
              /\ ret'.array = NoArray
              /\ ret'.columns = Top.columns
              /\ decoded' = decoded
      ]_vars

C5_Witness ==
    /\ Done
    /\ field0.dtype.kind = "UInt32"
    /\ columns0 # <<>>
    /\ Last(types0).pt = "ByteArray"
    /\ ret.kind = "err"
    /\ decoded = <<>>

DecimalAtTop(kind) ==
    /\ Running
    /\ Top.pc = "enter"
    /\ Top.field.dtype.kind = kind
    /\ Top.types # <<>>
    /\ Last(Top.types).pt = "FixedLenByteArray"

WidthOverflow(msg) ==
    /\ ret'.kind = "err"
    /\ ret'.msg = msg
    /\ ret'.array = NoArray
    /\ ret'.columns = Top.columns
    /\ decoded' = decoded

NoWidthOverflow ==
    ret'.msg \notin {"Can't decode Decimal128 type from FixedLenByteArray",
                     "Can't decode Decimal256 type from FixedLenByteArray"}

\* C6: decimal width overflow. A 128-bit decimal stored as a fixed-length byte
\* array wider than 16, and a 256-bit decimal stored wider than 32, return the
\* width-overflow error without decoding; within the limit that error is never
\* returned.
C6_DecimalWidth ==
    [][/\ DecimalAtTop("Decimal") =>
            IF Last(Top.types).n > 16
            THEN WidthOverflow("Can't decode Decimal128 type from FixedLenByteArray")
            ELSE NoWidthOverflow
       /\ DecimalAtTop("Decimal256") =>
            IF Last(Top.types).n > 32
            THEN WidthOverflow("Can't decode Decimal256 type from FixedLenByteArray")
            ELSE NoWidthOverflow
      ]_vars

C6_Witness ==
    /\ Done
    /\ field0.dtype.kind = "Decimal"
    /\ columns0 # <<>>
    /\ Last(types0) = Phys("FixedLenByteArray", 17)
    /\ ret.kind = "err"
    /\ ret.msg = "Can't decode Decimal128 type from FixedLenByteArray"
    /\ decoded = <<>>

DictionaryAtTop ==
    /\ Running
    /\ Top.pc = "enter"
    /\ Top.field.dtype.kind = "Dictionary"
    /\ Top.columns # <<>>

MarkedCategorical(field) == field.metadata \in {"categorical", "enum"}

LeafInit == Append(Top.init, Marker("Primitive", Top.field.is_nullable, 0))

\* The stream is decoded as view-encoded text and the result cast to the
\* declared dictionary type.
PlainTextThenCast ==
    /\ decoded' = Append(decoded, DecodeCall(Last(Top.columns), LeafDT("Utf8View"),
                                             "binview::BinViewDecoder", LeafInit))
    /\ ret'.kind \in {"ok", "err"}
    /\ ret'.kind = "ok" =>
          /\ ret'.array.conv = "cast"
          /\ ret'.array.dtype = Top.field.dtype
          /\ ret'.array.stream = Last(Top.columns)

CategoricalDecode ==
    /\ decoded' = Append(decoded, DecodeCall(Last(Top.columns), Top.field.dtype,
                                             "CategoricalDecoder", LeafInit))
    /\ ret'.kind \in {"ok", "err"}
    /\ ret'.kind = "ok" => ret'.array.conv = "" /\ ret'.array.dtype = Top.field.dtype

KeyWidthAssertion ==
    /\ ret'.kind = "panic"
    /\ ret'.msg = "assert key_type is UInt32"
    /\ ret'.array = NoArray
    /\ decoded' = decoded

DictionaryPath ==
    IF ~MarkedCategorical(Top.field)
    THEN PlainTextThenCast
    ELSE IF Top.field.dtype.key = "UInt32"
    THEN CategoricalDecode
    ELSE KeyWidthAssertion

\* C7 as stated: every dictionary node without a categorical or enum marker is
\* decoded as plain text and cast, whatever its key width; a marked node is
\* decoded by the categorical decoder if its keys are 32-bit unsigned and trips
\* the key-width assertion otherwise.
C7_Original ==
    [][DictionaryAtTop => DictionaryPath]_vars

\* C7, amended: the path selection of C7 holds for dictionary nodes whose value
\* type is view-encoded text; a dictionary node with any other value type trips
\* the value-type assertion before a path is selected, and decodes nothing.
C7_DictionaryPath ==
    [][DictionaryAtTop =>
         IF Top.field.dtype.value = "Utf8View"
         THEN DictionaryPath
         ELSE /\ ret'.kind = "panic"
              /\ ret'.msg = "assert value_type is Utf8View"
              /\ ret'.array = NoArray
              /\ decoded' = decoded
      ]_vars

C7_Witness ==
    /\ Done
    /\ field0.dtype.kind = "Dictionary"
    /\ field0.dtype.key = "UInt8"
    /\ field0.dtype.value = "Utf8View"
    /\ field0.metadata = "unmarked"
    /\ ret.kind = "ok"
    /\ ret.array.conv = "cast"
    /\ Last(decoded).decoder = "binview::BinViewDecoder"

\* The kinds the dispatch covers, as the claim lists them.
CoveredKinds ==
    {"Null", "Boolean", "Int8", "Int16", "Int32", "Int64", "UInt8", "UInt16", "UInt32",
     "UInt64", "Float32", "Float64", "BinaryView", "Utf8View", "Decimal", "Decimal256",
     "Dictionary", "List", "LargeList", "FixedSizeList", "Map", "Struct"}

NonViewKinds == {"Binary", "Utf8", "LargeBinary", "LargeUtf8"}

KindAtTop(kinds) ==
    /\ Running
    /\ Top.pc = "enter"
    /\ Top.field.dtype.kind \in kinds

UnsupportedTypeError ==
    /\ ret'.kind = "err"
    /\ ret'.msg = "Deserializing type from parquet"
    /\ ret'.array = NoArray
    /\ stack' = Front(stack)
    /\ decoded' = decoded

\* C8 as stated: every logical type outside the covered kinds, the non-view
\* binary and text types included, returns the unsupported-type error.
C8_Original ==
    [][KindAtTop(LeafKinds \ CoveredKinds) => UnsupportedTypeError]_vars

\* The logical types whose physical type is none of the covered kinds.
PhysicallyUncovered ==
    {k \in LeafKinds : k \notin CoveredKinds /\ to_physical_type(LeafDT(k)) \notin CoveredKinds}

\* C8, amended: every logical type whose physical type is none of the covered
\* kinds, other than the non-view binary and text types, returns the
\* unsupported-type error as a typed result and yields no array; Binary, Utf8,
\* LargeBinary and LargeUtf8 abort through unreachable!() instead, also without
\* yielding an array.
C8_ClosedWorld ==
    [][/\ KindAtTop(PhysicallyUncovered \ NonViewKinds) => UnsupportedTypeError
       /\ KindAtTop(NonViewKinds) =>
            /\ ret'.kind = "panic"
            /\ ret'.msg = "unreachable!()"
            /\ ret'.array = NoArray
            /\ decoded' = decoded
      ]_vars

C8_Witness ==
    /\ Running
    /\ Top.pc = "child"
    /\ Top.field.dtype.kind = "Struct"
    /\ Top.field.dtype.fields[Top.idx].dtype.kind = "Float16"
    /\ ret.kind = "err"
    /\ ret.msg = "Deserializing type from parquet"

\* C9: error propagation. An error returned by a leaf decode or a nested call is
\* handed unchanged to each caller in turn: no list, map, fixed-size-list or
\* struct level catches it or builds a container, and nothing further is
\* decoded, so the fields declared before a failing struct field never are.
C9_ErrorPropagation ==
    [][(Running /\ ret.kind = "err") =>
         /\ ret'.kind = "err"
         /\ ret'.msg = ret.msg
         /\ ret'.array = NoArray
         /\ stack' = Front(stack)
         /\ decoded' = decoded
      ]_vars

C9_Witness ==
    /\ Done
    /\ field0 = ListOf(StructOf(<<I32, ListOf(I32)>>))
    /\ Len(columns0) = 2
    /\ ret.kind = "err"
    /\ ret.msg = "decoder failure"
    /\ DecodedStreams = <<2>>

\* C10: insufficient input. A call entered with fewer streams (and types) than
\* the leaf count of its schema fails as a whole and returns no array.
C10_InsufficientInput ==
    (Done /\ Len(columns0) < LeafCount(field0))
    => /\ ret.kind \in {"err", "panic"}
       /\ ret.array = NoArray

C10_Witness ==
    /\ Done
    /\ field0 = StructOf(<<I32, I32>>)
    /\ Len(columns0) = 1
    /\ Len(decoded) = 1
    /\ ret.kind = "panic"
    /\ ret.msg = "split_off out of bounds"

\* The arms that handle one leaf: null, boolean, integers, floats, view binary
\* and text, decimal, dictionary.
LeafArmKinds == PrimitiveKinds \cup {"Decimal", "Decimal256", "Dictionary"}

\* A leaf arm is entered with stacks of equal length.
LeafAtTop ==
    /\ Running
    /\ Top.pc = "enter"
    /\ Top.field.dtype.kind \in LeafArmKinds
    /\ Len(Top.columns) = Len(Top.types)

\* C11: stack lockstep. A leaf arm entered with stacks of equal length that
\* decodes its leaf has removed exactly one stream and exactly one physical-type
\* descriptor when it returns, so the two stacks still have equal length, for
\* every leaf kind.
C11_Lockstep ==
    [][(LeafAtTop /\ decoded' # decoded) =>
         /\ Len(ret'.columns) = Len(Top.columns) - 1
         /\ Len(ret'.types) = Len(Top.types) - 1
      ]_vars

\* The NestedState each member of the struct at the top returned, the last
\* declared member (the first one processed) first.
MemberNested == Append(Top.field_nested, ret.nested)

\* C12: authoritative struct shape. The length and validity of a reconstructed
\* struct are those of the struct-level entry of the last declared field's
\* NestedState, the validity collapsed; the entries of the other fields change
\* neither, and the NestedState returned is the last declared field's with
\* exactly that one entry removed.
C12_AuthoritativeShape ==
    [][(StructFieldBack /\ Top.idx = 1 /\ ret'.kind = "ok") =>
         /\ ret'.array.node = "struct"
         /\ ret'.array.length = Last(MemberNested[1]).length
         /\ ret'.array.validity = Collapse(Last(MemberNested[1]).validity)
         /\ ret'.nested = Front(MemberNested[1])
      ]_vars

\* A release build is about to build a struct whose first declared member
\* reported another struct-level validity and another outer state than the last
\* declared member did.
C12_Witness ==
    /\ StructFieldBack
    /\ ~debug
    /\ Top.idx = 1
    /\ Len(MemberNested) = 2
    /\ Len(ret.nested) = 2
    /\ Collapse(Last(ret.nested).validity) # Collapse(Last(MemberNested[1]).validity)
    /\ Front(ret.nested) # Front(MemberNested[1])

\* The activation at the top returns successfully to its caller.
ReturnsOk ==
    /\ Running
    /\ stack' = Front(stack)
    /\ ret'.kind = "ok"

\* C13: NestedState depth. Every list, large-list, fixed-size-list and map level
\* returns what its child returned minus the last entry, a struct level what its
\* last declared field returned minus the last entry; with a leaf decode that
\* returns one entry per marker above the leaf, a call entered with k markers
\* returns exactly k entries, and a top-level call entered with none an empty
\* NestedState.
C13_NestedDepth ==
    [][ReturnsOk =>
         /\ Len(ret'.nested) = Len(Top.init)
         /\ (Top.pc = "child" /\ Top.field.dtype.kind # "Struct") =>
               ret'.nested = Front(ret.nested)
         /\ (Top.pc = "child" /\ Top.field.dtype.kind = "Struct") =>
               ret'.nested = Front(MemberNested[1])
         /\ (Len(stack) = 1 /\ init0 = <<>>) => ret'.nested = <<>>
      ]_vars

\* A struct with a list member was reconstructed by a call entered with one
\* marker: its leaves were decoded under three and two containers, and the call
\* returned one entry.
C13_Witness ==
    /\ Succeeded
    /\ field0 = StructOf(<<I32, ListOf(I32)>>)
    /\ Len(init0) = 1
    /\ Len(decoded) = 2
    /\ Len(decoded[1].init) = 4
    /\ Len(decoded[2].init) = 3
    /\ Len(ret.nested) = 1
    /\ ret.array.node = "struct"

RECURSIVE Join(_, _)
\* The items from the k-th on, in order, separated by ", ".
Join(items, k) ==
    IF k > Len(items) THEN <<>>
    ELSE IF k = Len(items) THEN items[k]
    ELSE items[k] \o <<",", " ">> \o Join(items, k + 1)

\* C16: comma_delimited(s, items) returns s unchanged, followed by '(', the
\* items in order separated by ", " with no trailing separator, and ')', for
\* every prefix and every list of items, the empty list and lists of empty
\* strings included.
C16_CommaDelimited ==
    comma.pc = "done" =>
        comma.s = comma.prefix \o <<"(">> \o Join(comma.items, 1) \o <<")">>

\* The gets and the registers of the run.
Gets == {t \in Threads : threads[t].op = "get"}
Registers == {t \in Threads : threads[t].op = "register"}

\* C17: converter registry under concurrency. A get that took the read lock
\* after at least one register had returned returns the whole argument of one
\* register call, and a get that did so after every register had returned
\* returns the argument of the register that took the write lock last.
C17_RegistryAtomic ==
    \A t \in Gets :
        (threads # <<>> /\ threads[t].pc = "done") =>
            /\ threads[t].after # {} =>
                  \E u \in Registers : threads[t].result = ArgOf(u)
            /\ (threads[t].after = Registers /\ Registers # {}) =>
                  \E u \in Registers :
                      /\ threads[u].after = Registers \ {u}
                      /\ threads[t].result = ArgOf(u)

\* Two registers returned, then a get read the registry of the second writer.
C17_Witness ==
    /\ threads # <<>>
    /\ \E t \in Gets, u \in Registers, v \in Registers :
          /\ threads[t].pc = "done"
          /\ threads[t].after = {u, v}
          /\ threads[u].after = {v}
          /\ threads[t].result = ArgOf(u)
          /\ u < v

\* The markers of the path from the root `field` to its p-th leaf (in depth-first
\* forward order): one per container node, then the leaf's Primitive marker.
RECURSIVE MarkerPath(_, _)
MarkerPath(field, p) ==
    CASE field.dtype.kind = "Struct" ->
            LET fields == field.dtype.fields
                i == CHOOSE j \in 1..Len(fields) :
                        SumColumns(fields, j - 1) < p /\ p <= SumColumns(fields, j)
            IN <<Marker("Struct", field.is_nullable, 0)>>
               \o MarkerPath(fields[i], p - SumColumns(fields, i - 1))
      [] field.dtype.kind \in ListKinds \cup {"Map"} ->
            <<Marker("List", field.is_nullable, 0)>> \o MarkerPath(field.dtype.fields[1], p)
      [] field.dtype.kind = "FixedSizeList" ->
            <<Marker("FixedSizeList", field.is_nullable, field.dtype.width)>>
            \o MarkerPath(field.dtype.fields[1], p)
      [] OTHER -> <<Marker("Primitive", field.is_nullable, 0)>>

\* The position, among the leaves of the schema, of the leaf whose stream the
\* i-th decode took: the leaves own the tail of the stream stack.
LeafOf(i) == decoded[i].stream + LeafCount(field0) - Len(columns0)

\* C14: nesting-marker path. The marker list of every leaf decode is the
\* caller's initial markers, then one marker per container node on the path from
\* the root to that leaf in root-to-leaf order, then the leaf's Primitive marker;
\* no marker pushed for a sibling field is in it.
C14_MarkerPath ==
    \A i \in 1..Len(decoded) :
        decoded[i].init = init0 \o MarkerPath(field0, LeafOf(i))

\* A call entered with one marker reconstructed a struct: the plain member was
\* decoded after its list-typed sibling, without the sibling's List marker.
C14_Witness ==
    /\ field0 = StructOf(<<I32, ListOf(I32)>>)
    /\ init0 = <<Marker("List", TRUE, 0)>>
    /\ Len(decoded) = 2
    /\ decoded[1].stream = 2
    /\ decoded[1].init = <<Marker("List", TRUE, 0), Marker("Struct", TRUE, 0),
                           Marker("List", TRUE, 0), Marker("Primitive", TRUE, 0)>>
    /\ decoded[2].stream = 1
    /\ decoded[2].init = <<Marker("List", TRUE, 0), Marker("Struct", TRUE, 0),
                           Marker("Primitive", TRUE, 0)>>

\* The 16-byte value v is the chunk c sign-extended: the bytes of c at the low
\* end, every byte above them 255 if the top bit of c is set and 0 otherwise.
SignExtends(v, c) ==
    /\ Len(v) = 16
    /\ \A i \in 1..16 :
          v[i] = IF i <= 16 - Len(c) THEN (IF c[1] >= 128 THEN 255 ELSE 0)
                 ELSE c[i - (16 - Len(c))]

\* The two's-complement value of a chunk of one or two bytes.
SignedValue(c) ==
    IF Len(c) = 1
    THEN c[1] - (IF c[1] >= 128 THEN 256 ELSE 0)
    ELSE c[1] * 256 + c[2] - (IF c[1] >= 128 THEN 65536 ELSE 0)

\* The value of a 16-byte integer that fits 16 bits.
SmallValue(v) == v[15] * 256 + v[16] - (IF v[1] >= 128 THEN 65536 ELSE 0)

\* The j-th chunk of `size` bytes of a buffer.
ChunkOf(values, size, j) == SubSeq(values, (j - 1) * size + 1, j * size)

\* C15: decimal from fixed-length bytes. A 128-bit decimal leaf stored as a
\* fixed-length byte array of width 1 <= n <= 16 that decodes holds one value per
\* consecutive n-byte chunk of the decoded buffer, in order, each the
\* sign-extended big-endian two's-complement value of its chunk; its validity is
\* the byte array's, and the NestedState returned is the byte-array decode's.
C15_DecimalFromBytes ==
    [][(/\ DecimalAtTop("Decimal")
        /\ Last(Top.types).n \in 1..16
        /\ ret'.kind = "ok") =>
         LET n == Last(Top.types).n
             raw == ret'.array.raw
             values == ret'.array.values
         IN /\ Len(values) * n = Len(raw.values)
            /\ \A j \in 1..Len(values) :
                  /\ SignExtends(values[j], ChunkOf(raw.values, n, j))
                  /\ n <= 2 => SmallValue(values[j]) = SignedValue(ChunkOf(raw.values, n, j))
            /\ ret'.array.validity = raw.validity
            /\ ret'.nested = ret'.array.raw_nested
            /\ ret'.array.dtype = Top.field.dtype
      ]_vars

\* A decimal stored in two bytes was decoded: a negative and a positive value,
\* the first of them null.
C15_Witness ==
    /\ Succeeded
    /\ field0.dtype.kind = "Decimal"
    /\ Last(types0) = Phys("FixedLenByteArray", 2)
    /\ Len(ret.nested) = 1
    /\ ret.array.raw.values = <<129, 2, 1, 2>>
    /\ ret.array.values = <<[i \in 1..16 |-> IF i <= 14 THEN 255 ELSE IF i = 15 THEN 129 ELSE 2],
                            [i \in 1..16 |-> IF i <= 14 THEN 0 ELSE i - 14]>>
    /\ ret.array.validity = SomeBitmap(2, {1})

====
